---- MODULE Spec2Model ----
(***************************************************************************)
(* Model of climate.py: the NatureRemoAC entity.  One entity instance is   *)
(* modelled: its fields, the ingestion of a settings snapshot (_update),   *)
(* the four command encoders set_..., and the capability look-ups.        *)
(*                                                                         *)
(* Values are tagged records so that Python's dynamic types stay visible:  *)
(*   NoneV         Python None                                             *)
(*   StrV(s)       a str compared only by equality (a TLA+ string)         *)
(*   TextV(c)      a str that is read by a parser (a sequence of chars)    *)
(*   IntV(n)       an int                                                  *)
(*   FloatV(m, k)  the float m / 10^k, kept exact as a decimal             *)
(*   Absent        a key that the mapping does not hold                    *)
(***************************************************************************)
EXTENDS Integers, Sequences, FiniteSets, TLC

VARIABLES
    modes,               \* self._modes: the capability table
    default_temp,        \* self._default_temp
    hvac_mode,           \* self._hvac_mode
    target_temperature,  \* self._target_temperature
    remo_mode,           \* self._remo_mode (the spec's last_raw_mode)
    fan_mode,            \* self._fan_mode
    swing_mode,          \* self._swing_mode
    posted,              \* the payloads the last operation handed to api.post
    last                 \* the last operation: name, argument, outcome

vars == <<modes, default_temp, hvac_mode, target_temperature, remo_mode,
          fan_mode, swing_mode, posted, last>>

state == <<hvac_mode, target_temperature, remo_mode, fan_mode, swing_mode>>

-----------------------------------------------------------------------------
(* Python values *)

NoneV == [t |-> "none"]
Absent == [t |-> "absent"]
StrV(s) == [t |-> "str", s |-> s]
TextV(c) == [t |-> "text", c |-> c]
IntV(n) == [t |-> "int", n |-> n]
FloatV(m, k) == [t |-> "float", m |-> m, k |-> k]

Ok(v) == [t |-> "ok", v |-> v]
Raise(e) == [t |-> "raise", e |-> e]

Digits == {"0", "1", "2", "3", "4", "5", "6", "7", "8", "9"}

DigitVal(ch) ==
    CASE ch = "0" -> 0 [] ch = "1" -> 1 [] ch = "2" -> 2 [] ch = "3" -> 3
      [] ch = "4" -> 4 [] ch = "5" -> 5 [] ch = "6" -> 6 [] ch = "7" -> 7
      [] ch = "8" -> 8 [] ch = "9" -> 9

DigitChar(d) ==
    CASE d = 0 -> "0" [] d = 1 -> "1" [] d = 2 -> "2" [] d = 3 -> "3"
      [] d = 4 -> "4" [] d = 5 -> "5" [] d = 6 -> "6" [] d = 7 -> "7"
      [] d = 8 -> "8" [] d = 9 -> "9"

RECURSIVE Pow10(_)
Pow10(k) == IF k = 0 THEN 1 ELSE 10 * Pow10(k - 1)

\* the value of a non-empty run of decimal digits
RECURSIVE DigitsVal(_)
DigitsVal(c) ==
    IF c = <<>> THEN 0
    ELSE 10 * DigitsVal(SubSeq(c, 1, Len(c) - 1)) + DigitVal(c[Len(c)])

AllDigits(c) == c # <<>> /\ \A i \in 1..Len(c) : c[i] \in Digits

\* str.strip() of the blanks around a numeral
RECURSIVE Strip(_)
Strip(c) ==
    IF c # <<>> /\ c[1] = " " THEN Strip(Tail(c))
    ELSE IF c # <<>> /\ c[Len(c)] = " " THEN Strip(SubSeq(c, 1, Len(c) - 1))
    ELSE c

HasSign(c) == c # <<>> /\ c[1] \in {"+", "-"}
Unsigned(c) == IF HasSign(c) THEN Tail(c) ELSE c
SignOf(c) == IF c # <<>> /\ c[1] = "-" THEN -1 ELSE 1

DotAt(c) == {i \in 1..Len(c) : c[i] = "."}

\* a float with its trailing fractional zeros dropped: 250/10 = 25/1
RECURSIVE Normal(_, _)
Normal(m, k) ==
    IF k > 0 /\ m % 10 = 0 THEN Normal(m \div 10, k - 1) ELSE FloatV(m, k)

\* int(x) of a str: blanks, a sign, decimal digits
py_int_text(c) ==
    LET s == Strip(c)
        u == Unsigned(s)
    IN  IF AllDigits(u) THEN Ok(IntV(SignOf(s) * DigitsVal(u)))
        ELSE Raise("ValueError")

\* float(x) of a str: blanks, a sign, digits with at most one point
py_float_text(c) ==
    LET s == Strip(c)
        u == Unsigned(s)
        dots == DotAt(u)
    IN  IF dots = {} THEN
            IF AllDigits(u) THEN Ok(FloatV(SignOf(s) * DigitsVal(u), 0))
            ELSE Raise("ValueError")
        ELSE IF Cardinality(dots) = 1 THEN
            LET d == CHOOSE i \in dots : TRUE
                ip == SubSeq(u, 1, d - 1)
                fp == SubSeq(u, d + 1, Len(u))
            IN  IF /\ ip \o fp # <<>>
                   /\ \A i \in 1..Len(ip) : ip[i] \in Digits
                   /\ \A i \in 1..Len(fp) : fp[i] \in Digits
                THEN Ok(Normal(SignOf(s) * DigitsVal(ip \o fp), Len(fp)))
                ELSE Raise("ValueError")
        ELSE Raise("ValueError")

\* float(x)
py_float(x) ==
    CASE x.t = "text" -> py_float_text(x.c)
      [] x.t = "int" -> Ok(FloatV(x.n, 0))
      [] x.t = "float" -> Ok(x)
      [] OTHER -> Raise("TypeError")

\* int(x): a float is truncated towards zero
py_int(x) ==
    CASE x.t = "text" -> py_int_text(x.c)
      [] x.t = "int" -> Ok(x)
      [] x.t = "float" ->
            Ok(IntV(IF x.m >= 0 THEN x.m \div Pow10(x.k)
                   ELSE -((-x.m) \div Pow10(x.k))))
      [] OTHER -> Raise("TypeError")

\* the decimal digits of a natural number, as a str
RECURSIVE NatStr(_)
NatStr(n) ==
    IF n < 10 THEN DigitChar(n) ELSE NatStr(n \div 10) \o DigitChar(n % 10)

\* f"{n}" of an int
py_format_int(n) == IF n < 0 THEN "-" \o NatStr(-n) ELSE NatStr(n)

\* bool(x): None and the empty str are false
Truthy(x) ==
    CASE x.t = "none" -> FALSE
      [] x.t = "text" -> x.c # <<>>
      [] x.t = "str" -> x.s # ""
      [] OTHER -> TRUE

\* a filter that drops None and keeps the empty str
RECURSIVE py_filter_none_only(_)
py_filter_none_only(xs) ==
    IF xs = <<>> THEN <<>>
    ELSE IF Head(xs).t # "none"
         THEN <<Head(xs)>> \o py_filter_none_only(Tail(xs))
    ELSE py_filter_none_only(Tail(xs))

\* filter(None, xs)
RECURSIVE py_filter(_)
py_filter(xs) ==
    IF xs = <<>> THEN <<>>
    ELSE IF Truthy(Head(xs)) THEN <<Head(xs)>> \o py_filter(Tail(xs))
    ELSE py_filter(Tail(xs))

-----------------------------------------------------------------------------
(* Module constants *)

HVAC_MODE_AUTO == "auto"
HVAC_MODE_COOL == "cool"
HVAC_MODE_DRY == "dry"
HVAC_MODE_FAN_ONLY == "fan_only"
HVAC_MODE_HEAT == "heat"
HVAC_MODE_OFF == "off"

DEFAULT_MAX_TEMP == 35
DEFAULT_MIN_TEMP == 7

HvacModes == {HVAC_MODE_AUTO, HVAC_MODE_COOL, HVAC_MODE_DRY,
              HVAC_MODE_FAN_ONLY, HVAC_MODE_HEAT, HVAC_MODE_OFF}

MODE_HA_TO_REMO ==
    [m \in HvacModes |->
        CASE m = HVAC_MODE_AUTO -> "auto"
          [] m = HVAC_MODE_FAN_ONLY -> "blow"
          [] m = HVAC_MODE_COOL -> "cool"
          [] m = HVAC_MODE_DRY -> "dry"
          [] m = HVAC_MODE_HEAT -> "warm"
          [] m = HVAC_MODE_OFF -> "power-off"]

MODE_REMO_TO_HA ==
    [r \in {"auto", "blow", "cool", "dry", "warm", "power-off"} |->
        CASE r = "auto" -> HVAC_MODE_AUTO
          [] r = "blow" -> HVAC_MODE_FAN_ONLY
          [] r = "cool" -> HVAC_MODE_COOL
          [] r = "dry" -> HVAC_MODE_DRY
          [] r = "warm" -> HVAC_MODE_HEAT
          [] r = "power-off" -> HVAC_MODE_OFF]

-----------------------------------------------------------------------------
(* The inputs the environment supplies *)

MaxRangeLen == 3

\* the entries a device lists in a mode's temperature range
RangeEntries ==
    {NoneV, TextV(<<>>), TextV(<<"1", "8">>), TextV(<<"3", "0">>),
     TextV(<<"-", "5">>)}

RECURSIVE SeqsUpTo(_, _)
SeqsUpTo(S, n) ==
    IF n = 0 THEN {<<>>}
    ELSE LET shorter == SeqsUpTo(S, n - 1)
         IN  shorter \cup {Append(q, x) : q \in {r \in shorter : Len(r) = n - 1}, x \in S}

Ranges == SeqsUpTo(RangeEntries, MaxRangeLen)

\* appliance["aircon"]["range"]["modes"] with rng as the range of "cool";
\* "auto" and "blow" are modes the device does not describe
Table(rng) ==
    [r \in {"cool", "warm", "dry"} |->
        CASE r = "cool" -> [temp |-> rng, vol |-> <<"auto", "low">>,
                            dir |-> <<"auto", "1">>]
          [] r = "warm" -> [temp |-> <<TextV(<<"2", "0">>), TextV(<<"1", "6">>)>>,
                            vol |-> <<"auto">>, dir |-> <<"3">>]
          [] r = "dry" -> [temp |-> <<TextV(<<>>), NoneV>>,
                           vol |-> <<>>, dir |-> <<>>]]

Tables ==
    {Table(<<TextV(<<"1", "8">>), TextV(<<>>), TextV(<<"3", "0">>), NoneV>>)}

RangeTables == {Table(rng) : rng \in Ranges}

\* config[CONF_COOL_TEMP], config[CONF_HEAT_TEMP]
Configs == {[cool |-> IntV(26), heat |-> IntV(20)],
            [cool |-> IntV(28), heat |-> IntV(18)]}

\* appliance["settings"]; "turbo" is a mode no table knows
Snapshots ==
    [mode : {"cool", "warm", "dry", "auto", "turbo"},
     temp : {Absent, TextV(<<>>), TextV(<<"a", "b", "c">>),
             TextV(<<"2", "5">>), TextV(<<"1", "8", ".", "5">>)},
     button : {"", "power-off"},
     vol : {"", "auto"},
     dir : {"", "3"}]

\* the snapshots of a device that is on, in each mode, and off
RangeSnapshots ==
    {s \in Snapshots : /\ s.temp = TextV(<<"2", "5">>)
                       /\ s.vol = "auto" /\ s.dir = "3"
                       /\ s.button = "power-off" => s.mode = "cool"}

\* kwargs.get(ATTR_TEMPERATURE)
TempArgs == {Absent, NoneV, IntV(24), IntV(0), FloatV(247, 1), FloatV(-15, 1)}
HvacArgs == HvacModes \cup {"eco"}
FanArgs == {"auto", "low"}
SwingArgs == {"auto", "1"}

-----------------------------------------------------------------------------
(* NatureRemoAC *)

\* the fields as __init__ leaves them before its call of _update
Unset == [hvac_mode |-> NoneV, target_temperature |-> NoneV,
          remo_mode |-> NoneV, fan_mode |-> NoneV, swing_mode |-> NoneV]

Self == [hvac_mode |-> hvac_mode, target_temperature |-> target_temperature,
         remo_mode |-> remo_mode, fan_mode |-> fan_mode,
         swing_mode |-> swing_mode]

\* x or None, of a str
OrNone(x) == IF x # "" THEN StrV(x) ELSE NoneV

\* parse_temp with 0.0 where the reading does not parse
parse_temp_zero(ac_settings) ==
    LET f == IF ac_settings.temp.t = "absent" THEN Raise("KeyError")
             ELSE py_float(ac_settings.temp)
    IN  IF f.t = "ok" THEN f.v ELSE FloatV(0, 0)

\* try: float(ac_settings["temp"]) except: None
parse_temp(ac_settings) ==
    LET f == IF ac_settings.temp.t = "absent" THEN Raise("KeyError")
             ELSE py_float(ac_settings.temp)
    IN  IF f.t = "ok" THEN f.v ELSE NoneV

\* _update with the raw mode taken from the button while the device is off
_update_mode_from_button(self, ac_settings) ==
    LET off == ac_settings.button = MODE_HA_TO_REMO[HVAC_MODE_OFF]
        s1 == [self EXCEPT !.remo_mode =
                  IF off THEN ac_settings.button ELSE ac_settings.mode]
        s2 == [s1 EXCEPT !.target_temperature = parse_temp(ac_settings)]
        known == s2.remo_mode \in DOMAIN MODE_REMO_TO_HA
        s3 == [s2 EXCEPT !.hvac_mode = MODE_REMO_TO_HA[s2.remo_mode]]
        s5 == [s3 EXCEPT !.fan_mode = OrNone(ac_settings.vol),
                         !.swing_mode = OrNone(ac_settings.dir)]
    IN  IF known THEN [self |-> s5, ret |-> Ok(NoneV)]
        ELSE [self |-> s2, ret |-> Raise("KeyError")]

\* _update with MODE_REMO_TO_HA.get(mode) in place of MODE_REMO_TO_HA[mode]
_update_tolerant(self, ac_settings) ==
    LET s1 == [self EXCEPT !.remo_mode = ac_settings.mode]
        s2 == [s1 EXCEPT !.target_temperature = parse_temp(ac_settings)]
        off == ac_settings.button = MODE_HA_TO_REMO[HVAC_MODE_OFF]
        known == s2.remo_mode \in DOMAIN MODE_REMO_TO_HA
        s3 == [s2 EXCEPT !.hvac_mode =
                  IF off THEN HVAC_MODE_OFF
                  ELSE IF known THEN MODE_REMO_TO_HA[s2.remo_mode]
                  ELSE "None"]
        s5 == [s3 EXCEPT !.fan_mode = OrNone(ac_settings.vol),
                         !.swing_mode = OrNone(ac_settings.dir)]
    IN  [self |-> s5, ret |-> Ok(NoneV)]

\* _update, statement by statement: the fields it leaves and how it ends
_update(self, ac_settings) ==
    LET s1 == [self EXCEPT !.remo_mode = ac_settings.mode]
        s2 == [s1 EXCEPT !.target_temperature = parse_temp(ac_settings)]
        off == ac_settings.button = MODE_HA_TO_REMO[HVAC_MODE_OFF]
        known == s2.remo_mode \in DOMAIN MODE_REMO_TO_HA
        s3 == [s2 EXCEPT !.hvac_mode =
                  IF off THEN HVAC_MODE_OFF ELSE MODE_REMO_TO_HA[s2.remo_mode]]
        s5 == [s3 EXCEPT !.fan_mode = OrNone(ac_settings.vol),
                         !.swing_mode = OrNone(ac_settings.dir)]
    IN  IF off \/ known THEN [self |-> s5, ret |-> Ok(NoneV)]
        ELSE [self |-> s2, ret |-> Raise("KeyError")]

Store(self) ==
    /\ hvac_mode' = self.hvac_mode
    /\ target_temperature' = self.target_temperature
    /\ remo_mode' = self.remo_mode
    /\ fan_mode' = self.fan_mode
    /\ swing_mode' = self.swing_mode

\* __init__: an entity exists only when its _update returned
Construct(tables, configs, snapshots) ==
    /\ modes \in tables
    /\ default_temp \in configs
    /\ \E appliance \in snapshots :
          LET r == _update(Unset, appliance)
          IN  /\ r.ret.t = "ok"
              /\ hvac_mode = r.self.hvac_mode
              /\ target_temperature = r.self.target_temperature
              /\ remo_mode = r.self.remo_mode
              /\ fan_mode = r.self.fan_mode
              /\ swing_mode = r.self.swing_mode
              /\ last = [op |-> "__init__", arg |-> appliance, ret |-> r.ret]
    /\ posted = <<>>

Init == Construct(Tables, Configs, Snapshots)

\* update: the fetch returned appliance
update(appliance) ==
    LET r == _update(Self, appliance)
    IN  /\ Store(r.self)
        /\ last' = [op |-> "update", arg |-> appliance, ret |-> r.ret]
        /\ posted' = <<>>
        /\ UNCHANGED <<modes, default_temp>>

\* update: api.get_appliance_list raised
update_fetch_failed ==
    /\ last' = [op |-> "update", arg |-> Absent, ret |-> Raise("ApiError")]
    /\ posted' = <<>>
    /\ UNCHANGED <<modes, default_temp, state>>

\* _post: hands data to api.post
_post(data) == posted' = <<data>>

\* set_temperature without its early return
set_temperature_unguarded(target_temp) ==
    /\ LET i == py_int(IF target_temp.t = "absent" THEN NoneV ELSE target_temp)
       IN  IF i.t = "ok"
           THEN /\ _post([temperature |-> StrV(py_format_int(i.v.n))])
                /\ last' = [op |-> "set_temperature", arg |-> target_temp,
                            ret |-> Ok(NoneV)]
           ELSE /\ posted' = <<>>
                /\ last' = [op |-> "set_temperature", arg |-> target_temp,
                            ret |-> i]
    /\ UNCHANGED <<modes, default_temp, state>>

set_temperature(target_temp) ==
    /\ IF target_temp.t \in {"absent", "none"}
       THEN /\ posted' = <<>>
            /\ last' = [op |-> "set_temperature", arg |-> target_temp,
                        ret |-> Ok(NoneV)]
       ELSE LET i == py_int(target_temp)
            IN  /\ _post([temperature |-> StrV(py_format_int(i.v.n))])
                /\ last' = [op |-> "set_temperature", arg |-> target_temp,
                            ret |-> Ok(NoneV)]
    /\ UNCHANGED <<modes, default_temp, state>>

\* the default of the mode the entity is in, not of the mode asked for
default_temp_get_current(m) ==
    CASE hvac_mode = HVAC_MODE_COOL -> default_temp.cool
      [] hvac_mode = HVAC_MODE_HEAT -> default_temp.heat
      [] OTHER -> NoneV

\* self._default_temp.get(hvac_mode)
default_temp_get(m) ==
    CASE m = HVAC_MODE_COOL -> default_temp.cool
      [] m = HVAC_MODE_HEAT -> default_temp.heat
      [] OTHER -> NoneV

\* set_hvac_mode that also takes the new mode as the entity's own
set_hvac_mode_optimistic(m) ==
    /\ m \in DOMAIN MODE_HA_TO_REMO
    /\ LET mode == MODE_HA_TO_REMO[m]
       IN  IF mode = MODE_HA_TO_REMO[HVAC_MODE_OFF]
           THEN _post([button |-> StrV(mode)])
           ELSE _post([operation_mode |-> StrV(mode),
                       temperature |-> default_temp_get(m)])
    /\ last' = [op |-> "set_hvac_mode", arg |-> StrV(m), ret |-> Ok(NoneV)]
    /\ hvac_mode' = m
    /\ UNCHANGED <<modes, default_temp, target_temperature, remo_mode,
                   fan_mode, swing_mode>>

set_hvac_mode(m) ==
    /\ IF m \notin DOMAIN MODE_HA_TO_REMO
       THEN /\ posted' = <<>>
            /\ last' = [op |-> "set_hvac_mode", arg |-> StrV(m),
                        ret |-> Raise("KeyError")]
       ELSE LET mode == MODE_HA_TO_REMO[m]
            IN  /\ IF mode = MODE_HA_TO_REMO[HVAC_MODE_OFF]
                   THEN _post([button |-> StrV(mode)])
                   ELSE _post([operation_mode |-> StrV(mode),
                               temperature |-> default_temp_get(m)])
                /\ last' = [op |-> "set_hvac_mode", arg |-> StrV(m),
                            ret |-> Ok(NoneV)]
    /\ UNCHANGED <<modes, default_temp, state>>

set_fan_mode(f) ==
    /\ _post([air_volume |-> StrV(f)])
    /\ last' = [op |-> "set_fan_mode", arg |-> StrV(f), ret |-> Ok(NoneV)]
    /\ UNCHANGED <<modes, default_temp, state>>

async_set_swing_mode(d) ==
    /\ _post([air_direction |-> StrV(d)])
    /\ last' = [op |-> "async_set_swing_mode", arg |-> StrV(d),
                ret |-> Ok(NoneV)]
    /\ UNCHANGED <<modes, default_temp, state>>

\* map(int, xs), the values
RECURSIVE map_int(_)
map_int(xs) ==
    IF xs = <<>> THEN <<>> ELSE <<py_int(Head(xs)).v.n>> \o map_int(Tail(xs))

\* _current_mode_temp_range(): the list, or the error raised
_current_mode_temp_range ==
    IF remo_mode \notin DOMAIN modes THEN Raise("KeyError")
    ELSE LET kept == py_filter(modes[remo_mode].temp)
         IN  IF \E i \in 1..Len(kept) : py_int(kept[i]).t # "ok"
             THEN Raise("ValueError")
             ELSE Ok(map_int(kept))

SeqMin(q) == CHOOSE x \in {q[i] : i \in 1..Len(q)} : \A j \in 1..Len(q) : x <= q[j]
SeqMax(q) == CHOOSE x \in {q[i] : i \in 1..Len(q)} : \A j \in 1..Len(q) : x >= q[j]

\* min_temp that takes the first entry for the least
min_temp_first ==
    LET temp_range == _current_mode_temp_range
    IN  IF temp_range.t # "ok" THEN temp_range
        ELSE IF Len(temp_range.v) = 0 THEN Ok(DEFAULT_MIN_TEMP)
        ELSE Ok(temp_range.v[1])

\* the value of the min_temp property
min_temp_value ==
    LET temp_range == _current_mode_temp_range
    IN  IF temp_range.t # "ok" THEN temp_range
        ELSE IF Len(temp_range.v) = 0 THEN Ok(DEFAULT_MIN_TEMP)
        ELSE Ok(SeqMin(temp_range.v))

\* the value of the max_temp property
max_temp_value ==
    LET temp_range == _current_mode_temp_range
    IN  IF temp_range.t # "ok" THEN temp_range
        ELSE IF Len(temp_range.v) = 0 THEN Ok(DEFAULT_MAX_TEMP)
        ELSE Ok(SeqMax(temp_range.v))

\* the value of the fan_modes property
fan_modes_value ==
    IF remo_mode \notin DOMAIN modes THEN Raise("KeyError")
    ELSE Ok(modes[remo_mode].vol)

\* the value of the swing_modes property
swing_modes_value ==
    IF remo_mode \notin DOMAIN modes THEN Raise("KeyError")
    ELSE Ok(modes[remo_mode].dir)

Read(op, value) ==
    /\ last' = [op |-> op, arg |-> NoneV, ret |-> value]
    /\ posted' = <<>>
    /\ UNCHANGED <<modes, default_temp, state>>

current_mode_temp_range == Read("_current_mode_temp_range", _current_mode_temp_range)
min_temp == Read("min_temp", min_temp_value)
max_temp == Read("max_temp", max_temp_value)
fan_modes == Read("fan_modes", fan_modes_value)
swing_modes == Read("swing_modes", swing_modes_value)

Next ==
    \/ \E appliance \in Snapshots : update(appliance)
    \/ update_fetch_failed
    \/ \E target_temp \in TempArgs : set_temperature(target_temp)
    \/ \E m \in HvacArgs : set_hvac_mode(m)
    \/ \E f \in FanArgs : set_fan_mode(f)
    \/ \E d \in SwingArgs : async_set_swing_mode(d)
    \/ current_mode_temp_range
    \/ min_temp
    \/ max_temp
    \/ fan_modes
    \/ swing_modes

Spec == Init /\ [][Next]_vars

\* the same entity over every capability table within the bounds
InitRange == Construct(RangeTables, Configs, RangeSnapshots)

NextRange ==
    \/ \E appliance \in RangeSnapshots : update(appliance)
    \/ current_mode_temp_range
    \/ min_temp
    \/ max_temp

SpecRange == InitRange /\ [][NextRange]_vars

-----------------------------------------------------------------------------
(* Properties *)

\* the last operation ran _update on last.arg
Ingested ==
    /\ last.op \in {"__init__", "update"}
    /\ last.ret # Raise("ApiError")

\* the readings the temperature parse does not accept
BadTemps == {Absent, TextV(<<>>), TextV(<<"a", "b", "c">>)}

\* the normalized mode of each raw mode token, written out
RawToNormalized(r) ==
    CASE r = "auto" -> "auto"
      [] r = "blow" -> "fan_only"
      [] r = "cool" -> "cool"
      [] r = "dry" -> "dry"
      [] r = "warm" -> "heat"
      [] r = "power-off" -> "off"

RecognizedTokens == {"auto", "blow", "cool", "dry", "warm", "power-off"}

\* the degrees each range entry of the tables stands for, written out
EntryInt(e) ==
    CASE e = TextV(<<"1", "8">>) -> 18
      [] e = TextV(<<"3", "0">>) -> 30
      [] e = TextV(<<"-", "5">>) -> -5
      [] e = TextV(<<"2", "0">>) -> 20
      [] e = TextV(<<"1", "6">>) -> 16

NonEmptyEntry(e) == e # NoneV /\ e # TextV(<<>>)

\* the degrees of the non-empty entries of a range, in the range's order
KeptDegrees(rng) ==
    LET kept == SelectSeq(rng, NonEmptyEntry)
    IN  [i \in 1..Len(kept) |-> EntryInt(kept[i])]

Ascending(q) == \A i, j \in 1..Len(q) : i < j => q[i] <= q[j]

CommandOps ==
    {"set_temperature", "set_hvac_mode", "set_fan_mode", "async_set_swing_mode"}

\* C1: the four command operations leave hvac_mode, target_temperature,
\* fan_mode, swing_mode, last_raw_mode and the capability table unchanged,
\* and every step that changes one of them is an ingestion (update).
C1_CommandsLeaveState ==
    [][/\ last'.op \in CommandOps => UNCHANGED <<state, modes>>
       /\ (state' # state \/ modes' # modes)
          => /\ modes' = modes
             /\ last'.op = "update"
             /\ last'.ret # Raise("ApiError")]_vars

\* set_hvac_mode(cool) has run and the entity still reports off
C1_Witness ==
    /\ last.op = "set_hvac_mode"
    /\ last.arg = StrV("cool")
    /\ posted # <<>>
    /\ hvac_mode = "off"

\* C2: after ingesting a power-off snapshot whose mode m is in the
\* capability table, hvac_mode is off, last_raw_mode is m, and the fan
\* modes, swing modes and temperature range are those of the table's entry
\* for m, without failing.
C2_OffKeepsRawMode ==
    (/\ Ingested
     /\ last.arg.button = "power-off"
     /\ last.arg.mode \in DOMAIN modes)
    => /\ last.ret.t = "ok"
       /\ hvac_mode = "off"
       /\ remo_mode = last.arg.mode
       /\ fan_modes_value = Ok(modes[last.arg.mode].vol)
       /\ swing_modes_value = Ok(modes[last.arg.mode].dir)
       /\ _current_mode_temp_range = Ok(KeptDegrees(modes[last.arg.mode].temp))

C2_Witness ==
    /\ last.op = "update"
    /\ last.ret.t = "ok"
    /\ last.arg.button = "power-off"
    /\ last.arg.mode = "warm"
    /\ hvac_mode = "off"
    /\ remo_mode = "warm"
    /\ fan_modes_value = Ok(<<"auto">>)

\* C3 as stated: ingesting a snapshot whose mode is no recognized raw mode
\* token raises no error whatever the button, and stores the mode.
C3_AsStated ==
    (Ingested /\ last.arg.mode \notin RecognizedTokens)
    => /\ last.ret.t = "ok"
       /\ remo_mode = last.arg.mode

\* C3 amended: ingesting a snapshot whose mode is no recognized raw mode
\* token stores the mode as last_raw_mode; with button "power-off" it
\* raises no error, reports off, and the failure comes only at a capability
\* look-up for a mode the table lacks; with any other button the ingestion
\* itself ends in a lookup error.
C3_UnknownModeIngest ==
    (Ingested /\ last.arg.mode \notin RecognizedTokens)
    => /\ remo_mode = last.arg.mode
       /\ last.arg.button = "power-off"
          => /\ last.ret.t = "ok"
             /\ hvac_mode = "off"
             /\ remo_mode \notin DOMAIN modes
                => /\ fan_modes_value = Raise("KeyError")
                   /\ swing_modes_value = Raise("KeyError")
                   /\ _current_mode_temp_range = Raise("KeyError")
       /\ last.arg.button # "power-off"
          => last.ret = Raise("KeyError")

C3_Witness ==
    /\ last.op = "update"
    /\ last.arg.mode = "turbo"
    /\ last.arg.button = "power-off"
    /\ last.ret.t = "ok"
    /\ remo_mode = "turbo"
    /\ fan_modes_value = Raise("KeyError")

\* the payload C4 gives for each normalized mode, written out
ModePayload(m) ==
    CASE m = "off" -> [button |-> StrV("power-off")]
      [] m = "cool" -> [operation_mode |-> StrV("cool"),
                        temperature |-> default_temp.cool]
      [] m = "heat" -> [operation_mode |-> StrV("warm"),
                        temperature |-> default_temp.heat]
      [] m = "auto" -> [operation_mode |-> StrV("auto"), temperature |-> NoneV]
      [] m = "dry" -> [operation_mode |-> StrV("dry"), temperature |-> NoneV]
      [] m = "fan_only" -> [operation_mode |-> StrV("blow"),
                            temperature |-> NoneV]

\* C4: for each of the six normalized modes set_hvac_mode sends exactly one
\* payload: {button: "power-off"} for off, otherwise {operation_mode: the raw
\* token, temperature: the configured default of the mode asked for, or
\* null}, whatever mode the entity is in.
C4_ModePayload ==
    (last.op = "set_hvac_mode"
        /\ last.arg.s \in {"auto", "cool", "dry", "fan_only", "heat", "off"})
    => /\ last.ret.t = "ok"
       /\ posted = <<ModePayload(last.arg.s)>>

\* heat was asked for while the entity was cooling
C4_Witness ==
    /\ last.op = "set_hvac_mode"
    /\ last.arg = StrV("heat")
    /\ hvac_mode = "cool"
    /\ posted = <<[operation_mode |-> StrV("warm"), temperature |-> IntV(20)]>>

\* the decimal string of int(t) for each temperature asked for, written out
TempText(t) ==
    CASE t = IntV(24) -> "24"
      [] t = IntV(0) -> "0"
      [] t = FloatV(247, 1) -> "24"
      [] t = FloatV(-15, 1) -> "-1"

\* C5: set_temperature without a value posts nothing and raises nothing;
\* with a value t it posts exactly {temperature: the decimal string of
\* int(t)}.
C5_TemperaturePayload ==
    last.op = "set_temperature"
    => /\ last.ret.t = "ok"
       /\ last.arg \in {Absent, NoneV} => posted = <<>>
       /\ last.arg \notin {Absent, NoneV}
          => posted = <<[temperature |-> StrV(TempText(last.arg))]>>

C5_Witness ==
    /\ last.op = "set_temperature"
    /\ last.arg = FloatV(-15, 1)
    /\ posted = <<[temperature |-> StrV("-1")]>>

PayloadKeys ==
    {"temperature", "operation_mode", "button", "air_volume", "air_direction"}

\* C6 as stated: every posted payload is a flat mapping with keys among
\* temperature, operation_mode, button, air_volume, air_direction and every
\* value a string or null.
C6_PayloadValuesAreStrings ==
    \A i \in 1..Len(posted) :
        \A k \in DOMAIN posted[i] :
            /\ k \in PayloadKeys
            /\ posted[i][k].t \in {"str", "none"}

\* C7 as stated: the temperature range is the degrees of the non-empty
\* entries in ascending order, whatever the order in the table.
C7_AsStated ==
    (last.op = "_current_mode_temp_range" /\ remo_mode \in DOMAIN modes)
    => /\ last.ret.t = "ok"
       /\ Ascending(last.ret.v)
       /\ {last.ret.v[i] : i \in 1..Len(last.ret.v)}
            = {EntryInt(e) : e \in {x \in {modes[remo_mode].temp[i] :
                    i \in 1..Len(modes[remo_mode].temp)} : NonEmptyEntry(x)}}

\* C7 amended: the temperature range is the degrees of exactly the non-empty,
\* non-absent entries of the table's range, in the order the table lists
\* them.
C7_RangeInTableOrder ==
    (last.op = "_current_mode_temp_range" /\ remo_mode \in DOMAIN modes)
    => last.ret = Ok(KeptDegrees(modes[remo_mode].temp))

C7_Witness ==
    /\ last.op = "_current_mode_temp_range"
    /\ remo_mode = "cool"
    /\ modes["cool"].temp = <<TextV(<<"3", "0">>), NoneV, TextV(<<"1", "8">>)>>
    /\ last.ret = Ok(<<30, 18>>)

\* the degrees a range lists
Degrees(rng) == {KeptDegrees(rng)[i] : i \in 1..Len(KeptDegrees(rng))}

\* C8: with last_raw_mode in the capability table, min_temp is the least and
\* max_temp the greatest degree of the range, and they are 7 and 35 when the
\* range has no non-empty entry; min_temp <= max_temp.
C8_MinMaxTemp ==
    remo_mode \in DOMAIN modes
    => LET ds == Degrees(modes[remo_mode].temp)
       IN  /\ last.op = "min_temp"
              => IF ds = {} THEN last.ret = Ok(7)
                 ELSE /\ last.ret.t = "ok"
                      /\ last.ret.v \in ds
                      /\ \A d \in ds : last.ret.v <= d
           /\ last.op = "max_temp"
              => IF ds = {} THEN last.ret = Ok(35)
                 ELSE /\ last.ret.t = "ok"
                      /\ last.ret.v \in ds
                      /\ \A d \in ds : last.ret.v >= d
           /\ min_temp_value.t = "ok"
           /\ max_temp_value.t = "ok"
           /\ min_temp_value.v <= max_temp_value.v

\* max_temp of a range made only of empty and absent entries
C8_Witness ==
    /\ last.op = "max_temp"
    /\ remo_mode = "dry"
    /\ last.ret = Ok(35)

C10_IngestAtomic ==
    [][(last'.op = "update" /\ last'.ret.t = "raise") => state' = state]_vars

====
